---- MODULE Spec2Model ----
\* A model of the <webgl-model-loader> custom element
\* (src/src/js/model-loader-component.js): its attach/detach lifecycle, the
\* asynchronous GLTF loads and their completion callbacks, the disposal of GPU
\* resources, the requestAnimationFrame loop and the touch-gesture handlers.
\*
\* Objects are named by small naturals, 0 standing for null: a scene/renderer
\* pair by the number of the initScene call that created it, a loaded model
\* (gltf.scene) by the number of the loadModel call whose result it is.
\* Angles are in milliradians, touch coordinates in pixels. Scale factors and
\* camera distances are in thousandths; a model's bounding box is given by its
\* largest dimension in whole units, taken not to depend on the model's rotation.
EXTENDS Integers, FiniteSets

\* ---------------------------------------------------------------- bounds
MaxLoads == 3
MaxAttach == 2
MaxDispose == 2
MaxUrl == 2
MaxContacts == 2
MaxSpin == 10
MaxRotation == 200

\* ------------------------------------------------------ program constants
touchThreshold == 15
rotationSpeed == 10
directionRatio == 2
\* camera.position.z after initScene and after resetCamera without a model.
initialCameraZ == 3000
resetCameraZ == 5000
\* 1.5 / (2 * tan(45 degrees / 2)), the camera distance per unit of maxDim.
framing == 1811

\* The number NaN: absorbing in arithmetic, see Plus.
NaN == -999999

\* Sampled touch coordinates: both sides of the threshold in each axis, and the
\* displacements (20, 5) and (16, 12).
TouchXs == {0, touchThreshold, touchThreshold + 1, 20}
TouchYs == {0, 5, 12, touchThreshold + 1}

ModelIds == 1 .. MaxLoads
SceneIds == 1 .. MaxAttach
Urls == 0 .. MaxUrl
\* Attribute values ("": absent or empty): a number, and one that is no number.
ScaleValues == {"", "2", "abc"}
RotateSpeedValues == {"", "0.01", "abc"}
\* Largest dimension of the bounding box of a loaded model at scale 1; 0 is a
\* model whose vertices all lie in one point.
Dims == {0, 2}

\* The scene graph of every loaded model: a root group with a mesh that has one
\* material and a mesh that has an array of two.
Meshes == {"single", "multi"}
Objects == [model : ModelIds, mesh : Meshes]
Geometry(o) == [model |-> o.model, mesh |-> o.mesh, kind |-> "geometry", index |-> 0]
Materials(o) ==
  {[model |-> o.model, mesh |-> o.mesh, kind |-> "material", index |-> i] :
     i \in (IF o.mesh = "multi" THEN {1, 2} ELSE {1})}
Resources == UNION {{Geometry(o)} \cup Materials(o) : o \in Objects}
ResourcesOf(k) == {r \in Resources : r.model = k}

VARIABLES
  isTouchDevice,     \* "ontouchstart" in window
  connected,         \* the element is in the document
  isInitialized,
  scene,             \* this.scene, this.renderer, this.camera (0: null)
  attrModelUrl,      \* the model-url attribute (0: absent or empty)
  attrAutoRotate,    \* the auto-rotate attribute is present
  attrScale,         \* the scale attribute
  attrRotateSpeed,   \* the rotate-speed attribute
  rotateSpeed,       \* this.rotateSpeed
  modelScale,        \* this.modelScale
  scale,             \* this.model.scale (x = y = z)
  modelDim,          \* largest box dimension of this.model at scale 1
  cameraZ,           \* this.camera.position.z (the camera exists when scene # 0)
  isAutoRotate,
  issued,            \* number of loadModel calls so far
  pending,           \* loads in flight
  model,             \* this.model (0: null)
  parent,            \* parent[k]: the scene model k is a child of (0: none)
  animationMixer,    \* the model this.animationMixer was created for (0: null)
  rotationY,         \* this.model.rotation.y
  disposeCount,      \* dispose() calls per geometry and material
  rendererDisposed,  \* dispose() calls per renderer
  rafPending,        \* animate callbacks waiting in requestAnimationFrame
  resizeListeners,   \* resize listeners registered on window
  touchListeners,    \* canvases carrying the four touch listeners
  modelLoaded,       \* models a model-loaded event was dispatched for
  modelError,        \* loads a model-error event was dispatched for
  touchStartX,
  touchStartY,
  isHorizontalPan,
  touchMoveStarted,
  contacts,          \* fingers on the canvas: e.touches.length
  touchX,            \* clientX of touches[0] as last read by a handler
  touchY,
  touchEvent,        \* type of the touch event this step handled ("none": no touch event)
  defaultPrevented   \* that event's preventDefault() was called

lifecycleVars ==
  <<isTouchDevice, connected, isInitialized, scene, attrModelUrl, attrAutoRotate,
    isAutoRotate, rendererDisposed, rafPending, resizeListeners, touchListeners>>
loadVars ==
  <<issued, pending, model, parent, animationMixer, disposeCount, modelLoaded, modelError>>
gestureVars ==
  <<touchStartX, touchStartY, isHorizontalPan, touchMoveStarted, contacts, touchX, touchY>>
eventVars == <<touchEvent, defaultPrevented>>
configVars == <<attrScale, attrRotateSpeed, rotateSpeed, modelScale>>
viewVars == <<scale, modelDim, cameraZ>>
vars == <<lifecycleVars, loadVars, gestureVars, eventVars, configVars, viewVars, rotationY>>

Abs(n) == IF n < 0 THEN -n ELSE n
\* a + b in JavaScript numbers.
Plus(a, b) == IF a = NaN \/ b = NaN THEN NaN ELSE a + b

\* parseFloat on the strings that occur, in thousandths.
ParseFloat(str) ==
  CASE str = "0.005" -> 5
    [] str = "0.01" -> 10
    [] str = "1.0" -> 1000
    [] str = "2" -> 2000
    [] OTHER -> NaN
\* value || fallback on an attribute value: null and "" are falsy.
OrDefault(value, fallback) == IF value = "" THEN fallback ELSE value

\* Math.max(size.x, size.y, size.z) of Box3().setFromObject(model) for a model
\* of largest dimension dim at scale sc, in thousandths.
MaxDim(dim, sc) == IF sc = NaN THEN NaN ELSE Abs(sc) * dim
\* cameraZ = Math.abs(maxDim / 2 / Math.tan(fov / 2)) * 1.5 with fov 45 degrees.
CameraDistance(maxDim) ==
  IF maxDim = NaN THEN NaN ELSE (Abs(maxDim) * framing) \div 1000

\* ------------------------------------------------------------------ Init
Init ==
  /\ isTouchDevice \in BOOLEAN
  /\ connected = FALSE
  /\ isInitialized = FALSE
  /\ scene = 0
  /\ attrModelUrl = 0
  /\ attrAutoRotate = FALSE
  /\ attrScale = ""
  /\ attrRotateSpeed = ""
  /\ rotateSpeed = 5
  /\ modelScale = 1000
  /\ scale = 1000
  /\ modelDim = 0
  /\ cameraZ = 0
  /\ isAutoRotate = FALSE
  /\ issued = 0
  /\ pending = {}
  /\ model = 0
  /\ parent = [k \in ModelIds |-> 0]
  /\ animationMixer = 0
  /\ rotationY = 0
  /\ disposeCount = [r \in Resources |-> 0]
  /\ rendererDisposed = [s \in SceneIds |-> 0]
  /\ rafPending = 0
  /\ resizeListeners = 0
  /\ touchListeners = 0
  /\ modelLoaded = {}
  /\ modelError = {}
  /\ touchStartX = 0
  /\ touchStartY = 0
  /\ isHorizontalPan = FALSE
  /\ touchMoveStarted = FALSE
  /\ contacts = 0
  /\ touchX = 0
  /\ touchY = 0
  /\ touchEvent = "none"
  /\ defaultPrevented = FALSE

NoTouchEvent == touchEvent' = "none" /\ defaultPrevented' = FALSE

\* ------------------------------------------------------- render loop
\* The frame body of animate: the Y rotation after the auto-rotation step.
AutoRotated(auto, m, rot, speed) == IF auto /\ m # 0 THEN Plus(rot, speed) ELSE rot

\* One display-refresh tick: a waiting animate callback runs and requests the
\* next frame, so the number of waiting callbacks is unchanged.
Animate ==
  /\ rafPending > 0
  /\ rotationY' = AutoRotated(isAutoRotate, model, rotationY, rotateSpeed)
  /\ rotationY' = NaN \/ rotationY' <= MaxSpin
  /\ NoTouchEvent
  /\ UNCHANGED <<lifecycleVars, loadVars, gestureVars, configVars, viewVars>>

\* ------------------------------------------------------------ loading
\* loadModel(url): hands the url to a new GLTFLoader; the callbacks run later.
LoadModel ==
  /\ issued < MaxLoads
  /\ issued' = issued + 1
  /\ pending' = pending \cup {issued + 1}

\* scene.remove(this.model), guarded by if (this.model): the parent relation p
\* with the installed model m taken out of scene s.
\* (RemoveKeepsOld: the variant that forgets the removal.)
RemoveKeepsOld(p, m, s) == p
RemoveOld(p, m, s) ==
  IF m # 0 /\ p[m] = s THEN [p EXCEPT ![m] = 0] ELSE p

\* The scale the success callback gives the new model: the scale attribute as it
\* is when the callback runs.
\* (CachedScale: the variant that uses the value read at attach.)
CachedScale == modelScale
InstallScale == ParseFloat(OrDefault(attrScale, "1.0"))

\* The success callback of load k; clips: gltf.animations is non-empty; dim: the
\* largest dimension of the bounding box of gltf.scene.
LoadSuccess(k, clips, dim) ==
  /\ k \in pending
  /\ pending' = pending \ {k}
  /\ model' = k
  /\ parent' = [RemoveOld(parent, model, scene) EXCEPT ![k] = scene]
  /\ rotationY' = 0
  /\ animationMixer' = IF clips THEN k ELSE animationMixer
  /\ scale' = InstallScale
  /\ modelDim' = dim
  /\ cameraZ' = CameraDistance(MaxDim(dim, scale'))
  /\ modelLoaded' = modelLoaded \cup {k}
  /\ NoTouchEvent
  /\ UNCHANGED <<issued, disposeCount, modelError, lifecycleVars, gestureVars, configVars>>

\* The error callback of load k: logs and dispatches model-error.
\* (LoadErrorDropsModel: the variant that also takes the installed model down.)
LoadErrorDropsModel(k) ==
  /\ k \in pending
  /\ pending' = pending \ {k}
  /\ modelError' = modelError \cup {k}
  /\ model' = 0
  /\ parent' = RemoveOld(parent, model, scene)
  /\ NoTouchEvent
  /\ UNCHANGED <<issued, animationMixer, disposeCount, modelLoaded,
                 rotationY, lifecycleVars, gestureVars, configVars, viewVars>>
LoadError(k) ==
  /\ k \in pending
  /\ pending' = pending \ {k}
  /\ modelError' = modelError \cup {k}
  /\ NoTouchEvent
  /\ UNCHANGED <<issued, model, parent, animationMixer, disposeCount, modelLoaded,
                 rotationY, lifecycleVars, gestureVars, configVars, viewVars>>

\* ---------------------------------------------------------- lifecycle
\* connectedCallback: reads the attributes, initScene (a new scene, camera and
\* renderer, then the first animate call), loadModel when model-url is set,
\* the resize listener, setupTouchEvents.
ConnectedCallback ==
  /\ ~connected
  /\ scene < MaxAttach
  /\ connected' = TRUE
  /\ isAutoRotate' = attrAutoRotate
  /\ scene' = scene + 1
  /\ rotateSpeed' = ParseFloat(OrDefault(attrRotateSpeed, "0.005"))
  /\ modelScale' = ParseFloat(OrDefault(attrScale, "1.0"))
  /\ cameraZ' = initialCameraZ
  /\ isInitialized' = TRUE
  /\ rafPending' = rafPending + 1
  /\ rotationY' = AutoRotated(attrAutoRotate, model, rotationY, rotateSpeed')
  /\ rotationY' = NaN \/ rotationY' <= MaxSpin
  /\ IF attrModelUrl # 0 THEN LoadModel ELSE UNCHANGED <<issued, pending>>
  /\ resizeListeners' = resizeListeners + 1
  /\ touchListeners' = IF isTouchDevice THEN touchListeners + 1 ELSE touchListeners
  /\ NoTouchEvent
  /\ UNCHANGED <<isTouchDevice, attrModelUrl, attrAutoRotate, rendererDisposed,
                 model, parent, animationMixer, disposeCount, modelLoaded, modelError,
                 gestureVars, attrScale, attrRotateSpeed, scale, modelDim>>

\* disposeScene(s): traverse visits every object below s once and disposes its
\* geometry and each of its materials.
ObjectsIn(s) == {o \in Objects : parent[o.model] = s}
Disposals(o) == {Geometry(o)} \cup Materials(o)
DisposeScene(s) ==
  [r \in Resources |->
     disposeCount[r] + Cardinality({o \in ObjectsIn(s) : r \in Disposals(o)})]

\* disconnectedCallback: removeEventListener is given a fresh bound function, so
\* it removes nothing; then renderer.dispose() and disposeScene(this.scene).
DisconnectedCallback ==
  /\ scene # 0 => rendererDisposed[scene] < MaxDispose
  /\ connected' = FALSE
  /\ rendererDisposed' =
       IF scene # 0 THEN [rendererDisposed EXCEPT ![scene] = @ + 1] ELSE rendererDisposed
  /\ disposeCount' = IF scene # 0 THEN DisposeScene(scene) ELSE disposeCount
  /\ NoTouchEvent
  /\ UNCHANGED <<isTouchDevice, isInitialized, scene, attrModelUrl, attrAutoRotate,
                 isAutoRotate, rafPending, resizeListeners, touchListeners,
                 issued, pending, model, parent, animationMixer, modelLoaded, modelError,
                 rotationY, gestureVars, configVars, viewVars>>

\* setAttribute("model-url", u) or removeAttribute (u = 0), then
\* attributeChangedCallback("model-url", old, u).
SetModelUrl(u) ==
  /\ attrModelUrl' = u
  /\ IF isInitialized /\ u # attrModelUrl /\ u # 0
       THEN LoadModel
       ELSE UNCHANGED <<issued, pending>>
  /\ NoTouchEvent
  /\ UNCHANGED <<isTouchDevice, connected, isInitialized, scene, attrAutoRotate,
                 isAutoRotate, rendererDisposed, rafPending, resizeListeners,
                 touchListeners, model, parent, animationMixer, disposeCount,
                 modelLoaded, modelError, rotationY, gestureVars, configVars, viewVars>>

\* toggleAttribute("auto-rotate", b), then attributeChangedCallback("auto-rotate").
SetAutoRotate(b) ==
  /\ attrAutoRotate' = b
  /\ isAutoRotate' = IF isInitialized THEN b ELSE isAutoRotate
  /\ NoTouchEvent
  /\ UNCHANGED <<isTouchDevice, connected, isInitialized, scene, attrModelUrl,
                 rendererDisposed, rafPending, resizeListeners, touchListeners,
                 loadVars, rotationY, gestureVars, configVars, viewVars>>

\* setAttribute("scale", v) or removeAttribute (v = ""), then
\* attributeChangedCallback("scale", old, v).
SetScale(v) ==
  /\ attrScale' = v
  /\ scale' = IF isInitialized /\ model # 0
                THEN ParseFloat(OrDefault(v, "1.0"))
                ELSE scale
  /\ NoTouchEvent
  /\ UNCHANGED <<lifecycleVars, loadVars, gestureVars, attrRotateSpeed, rotateSpeed,
                 modelScale, modelDim, cameraZ, rotationY>>

\* setAttribute("rotate-speed", v) or removeAttribute, then
\* attributeChangedCallback("rotate-speed", old, v).
SetRotateSpeed(v) ==
  /\ attrRotateSpeed' = v
  /\ rotateSpeed' = IF isInitialized
                      THEN ParseFloat(OrDefault(v, "0.005"))
                      ELSE rotateSpeed
  /\ NoTouchEvent
  /\ UNCHANGED <<lifecycleVars, loadVars, gestureVars, attrScale, modelScale,
                 viewVars, rotationY>>

\* resetCamera(): returns when there is no camera; otherwise the fixed position,
\* then the framing distance of the installed model if there is one.
ResetCamera ==
  /\ cameraZ' = IF scene = 0 THEN cameraZ
                ELSE IF model # 0 THEN CameraDistance(MaxDim(modelDim, scale))
                ELSE resetCameraZ
  /\ NoTouchEvent
  /\ UNCHANGED <<lifecycleVars, loadVars, gestureVars, configVars, scale, modelDim,
                 rotationY>>

\* ------------------------------------------------------------ gestures
\* handleHorizontalPan(deltaX), called for a sample at clientX x. With no model
\* it returns at once. Otherwise it rotates the model and then reads the ambient
\* window.event: where that is the event being handled, touchStartX becomes x;
\* where it is undefined (the canvas is in a shadow tree) the read throws and
\* touchStartX is left as it was.
HandleHorizontalPan(deltaX, x) ==
  IF model = 0
    THEN UNCHANGED <<rotationY, touchStartX>>
    ELSE /\ rotationY' = Plus(rotationY, deltaX * rotationSpeed)
         /\ rotationY' = NaN \/ Abs(rotationY') <= MaxRotation
         /\ \/ touchStartX' = x
            \/ UNCHANGED touchStartX

\* The condition of the first branch of the touchmove listener.
\* (DecidesAgain: the variant without the !touchMoveStarted test.)
DecidesAgain(deltaX, deltaY) == deltaX > touchThreshold \/ deltaY > touchThreshold
DecidesNow(deltaX, deltaY) ==
  ~touchMoveStarted /\ (deltaX > touchThreshold \/ deltaY > touchThreshold)

\* The test that claims the gesture for the model.
\* (WiderThanTall: the variant without the factor 2.)
WiderThanTall(deltaX, deltaY) == deltaX > deltaY /\ deltaX > touchThreshold
IsHorizontal(deltaX, deltaY) ==
  deltaX > deltaY * directionRatio /\ deltaX > touchThreshold

\* The condition of the else-if branch of the touchmove listener.
\* (ContinuesAnyGesture: the variant without the isHorizontalPan test.)
ContinuesAnyGesture == touchMoveStarted
ContinuesPan == touchMoveStarted /\ isHorizontalPan

\* touchstart: c contacts are down afterwards, the first of them at (x, y).
TouchStart(c, x, y) ==
  /\ touchListeners > 0
  /\ c > contacts
  /\ contacts' = c
  /\ IF c = 1
       THEN /\ touchStartX' = x
            /\ touchStartY' = y
            /\ isHorizontalPan' = FALSE
            /\ touchMoveStarted' = FALSE
            /\ touchX' = x
            /\ touchY' = y
       ELSE UNCHANGED <<touchStartX, touchStartY, isHorizontalPan, touchMoveStarted,
                        touchX, touchY>>
  /\ touchEvent' = "touchstart"
  /\ defaultPrevented' = FALSE
  /\ UNCHANGED <<lifecycleVars, loadVars, configVars, viewVars, rotationY>>

\* touchmove with the first contact at (x, y).
TouchMove(x, y) ==
  /\ touchListeners > 0
  /\ contacts >= 1
  /\ touchEvent' = "touchmove"
  /\ IF contacts = 1
       THEN LET deltaX == Abs(x - touchStartX)
                deltaY == Abs(y - touchStartY)
            IN  /\ touchX' = x
                /\ touchY' = y
                /\ IF DecidesNow(deltaX, deltaY)
                     THEN /\ touchMoveStarted' = TRUE
                          /\ IF IsHorizontal(deltaX, deltaY)
                               THEN /\ isHorizontalPan' = TRUE
                                    /\ defaultPrevented' = TRUE
                                    /\ HandleHorizontalPan(x - touchStartX, x)
                               ELSE /\ isHorizontalPan' = FALSE
                                    /\ defaultPrevented' = FALSE
                                    /\ UNCHANGED <<rotationY, touchStartX>>
                     ELSE IF ContinuesPan
                       THEN /\ defaultPrevented' = TRUE
                            /\ HandleHorizontalPan(x - touchStartX, x)
                            /\ UNCHANGED <<touchMoveStarted, isHorizontalPan>>
                       ELSE /\ defaultPrevented' = FALSE
                            /\ UNCHANGED <<touchMoveStarted, isHorizontalPan,
                                           rotationY, touchStartX>>
       ELSE /\ defaultPrevented' = FALSE
            /\ UNCHANGED <<touchX, touchY, touchMoveStarted, isHorizontalPan,
                           rotationY, touchStartX>>
  /\ UNCHANGED <<lifecycleVars, loadVars, configVars, viewVars, touchStartY, contacts>>

\* The body shared by the touchend and touchcancel listeners.
\* (KeepFlags: the variant that resets nothing.)
KeepFlags == UNCHANGED <<isHorizontalPan, touchMoveStarted>>
ResetFlags == isHorizontalPan' = FALSE /\ touchMoveStarted' = FALSE

\* touchend: c contacts stay down.
TouchEnd(c) ==
  /\ touchListeners > 0
  /\ c < contacts
  /\ contacts' = c
  /\ ResetFlags
  /\ touchEvent' = "touchend"
  /\ defaultPrevented' = FALSE
  /\ UNCHANGED <<lifecycleVars, loadVars, configVars, viewVars, rotationY, touchStartX, touchStartY,
                 touchX, touchY>>

\* touchcancel: c contacts stay down.
TouchCancel(c) ==
  /\ touchListeners > 0
  /\ c < contacts
  /\ contacts' = c
  /\ ResetFlags
  /\ touchEvent' = "touchcancel"
  /\ defaultPrevented' = FALSE
  /\ UNCHANGED <<lifecycleVars, loadVars, configVars, viewVars, rotationY, touchStartX, touchStartY,
                 touchX, touchY>>

\* A touch device's widget, attached with model-url set: initialized, its first
\* load in flight, the touch listeners on the canvas. It is the state Spec
\* reaches from Init by SetModelUrl(1) and ConnectedCallback.
InitTouch ==
  /\ isTouchDevice = TRUE
  /\ connected = TRUE
  /\ isInitialized = TRUE
  /\ scene = 1
  /\ attrModelUrl = 1
  /\ attrAutoRotate = FALSE
  /\ attrScale = ""
  /\ attrRotateSpeed = ""
  /\ rotateSpeed = 5
  /\ modelScale = 1000
  /\ scale = 1000
  /\ modelDim = 0
  /\ cameraZ = initialCameraZ
  /\ isAutoRotate = FALSE
  /\ issued = 1
  /\ pending = {1}
  /\ model = 0
  /\ parent = [k \in ModelIds |-> 0]
  /\ animationMixer = 0
  /\ rotationY = 0
  /\ disposeCount = [r \in Resources |-> 0]
  /\ rendererDisposed = [s \in SceneIds |-> 0]
  /\ rafPending = 1
  /\ resizeListeners = 1
  /\ touchListeners = 1
  /\ modelLoaded = {}
  /\ modelError = {}
  /\ touchStartX = 0
  /\ touchStartY = 0
  /\ isHorizontalPan = FALSE
  /\ touchMoveStarted = FALSE
  /\ contacts = 0
  /\ touchX = 0
  /\ touchY = 0
  /\ touchEvent = "none"
  /\ defaultPrevented = FALSE

NextTouch ==
  \/ \E c \in 1 .. MaxContacts, x \in TouchXs, y \in TouchYs : TouchStart(c, x, y)
  \/ \E x \in TouchXs, y \in TouchYs : TouchMove(x, y)
  \/ \E c \in 0 .. MaxContacts : TouchEnd(c)
  \/ \E c \in 0 .. MaxContacts : TouchCancel(c)
  \/ \E k \in ModelIds : LoadSuccess(k, FALSE, 2)

SpecTouch == InitTouch /\ [][NextTouch]_vars

\* The widget under load requests and completions alone: attached, never detached.
NextLoad ==
  \/ ConnectedCallback
  \/ \E u \in Urls : SetModelUrl(u)
  \/ \E b \in BOOLEAN : SetAutoRotate(b)
  \/ \E k \in ModelIds, clips \in BOOLEAN, dim \in Dims : LoadSuccess(k, clips, dim)
  \/ \E k \in ModelIds : LoadError(k)
  \/ Animate

SpecLoad == Init /\ [][NextLoad]_vars

Next ==
  \/ ConnectedCallback
  \/ DisconnectedCallback
  \/ \E u \in Urls : SetModelUrl(u)
  \/ \E b \in BOOLEAN : SetAutoRotate(b)
  \/ \E k \in ModelIds, clips \in BOOLEAN, dim \in Dims : LoadSuccess(k, clips, dim)
  \/ \E k \in ModelIds : LoadError(k)
  \/ Animate

Spec == Init /\ [][Next]_vars

\* The configuration attributes, the loads and the camera of a widget that is
\* attached once: attribute changes also before the attach, completions of
\* geometry of both sizes, resetCamera at any time.
NextView ==
  \/ ConnectedCallback
  \/ \E u \in Urls : SetModelUrl(u)
  \/ \E v \in ScaleValues : SetScale(v)
  \/ \E v \in RotateSpeedValues : SetRotateSpeed(v)
  \/ \E k \in ModelIds, dim \in Dims : LoadSuccess(k, FALSE, dim)
  \/ \E k \in ModelIds : LoadError(k)
  \/ ResetCamera

SpecView == Init /\ [][NextView]_vars

\* A widget whose model-url is set before it is attached and never changed:
\* every load is issued by a connectedCallback, so the loads in flight while the
\* widget is detached were all issued before the disconnectedCallback.
InitTeardown ==
  /\ isTouchDevice \in BOOLEAN
  /\ connected = FALSE
  /\ isInitialized = FALSE
  /\ scene = 0
  /\ attrModelUrl = 1
  /\ attrAutoRotate = FALSE
  /\ attrScale = ""
  /\ attrRotateSpeed = ""
  /\ rotateSpeed = 5
  /\ modelScale = 1000
  /\ scale = 1000
  /\ modelDim = 0
  /\ cameraZ = 0
  /\ isAutoRotate = FALSE
  /\ issued = 0
  /\ pending = {}
  /\ model = 0
  /\ parent = [k \in ModelIds |-> 0]
  /\ animationMixer = 0
  /\ rotationY = 0
  /\ disposeCount = [r \in Resources |-> 0]
  /\ rendererDisposed = [s \in SceneIds |-> 0]
  /\ rafPending = 0
  /\ resizeListeners = 0
  /\ touchListeners = 0
  /\ modelLoaded = {}
  /\ modelError = {}
  /\ touchStartX = 0
  /\ touchStartY = 0
  /\ isHorizontalPan = FALSE
  /\ touchMoveStarted = FALSE
  /\ contacts = 0
  /\ touchX = 0
  /\ touchY = 0
  /\ touchEvent = "none"
  /\ defaultPrevented = FALSE

NextTeardown ==
  \/ ConnectedCallback
  \/ DisconnectedCallback
  \/ \E k \in ModelIds, clips \in BOOLEAN, dim \in Dims : LoadSuccess(k, clips, dim)
  \/ \E k \in ModelIds : LoadError(k)

SpecTeardown == InitTeardown /\ [][NextTeardown]_vars
\* ================================================================ claims
Pending == contacts = 1 /\ ~touchMoveStarted
ClaimedHorizontal == touchMoveStarted /\ isHorizontalPan
CededVertical == touchMoveStarted /\ ~isHorizontalPan
\* The displacement of the last sample from the recorded start.
SampleDX == Abs(touchX - touchStartX)
SampleDY == Abs(touchY - touchStartY)
\* The models that are children of the current scene.
InScene == IF scene = 0 THEN {} ELSE {k \in ModelIds : parent[k] = scene}

\* C1: last issued load request wins. Once every issued load has completed
\* successfully, the installed model is the result of the load issued last, also
\* when an earlier load completed after it.
C1_LastIssuedWins ==
  (issued >= 2 /\ pending = {} /\ modelError = {}) => model = issued

\* C2: gesture stickiness. Once a gesture is decided, ClaimedHorizontal or
\* CededVertical, no touch-move changes the decision to the other one or back to
\* Pending.
C2_GestureSticky ==
  [][(touchMoveStarted /\ touchEvent' = "touchmove")
       => (touchMoveStarted' /\ isHorizontalPan' = isHorizontalPan)]_vars

\* C2 witness: a claimed gesture, with no model to move its reference X, whose
\* last sample would not claim it: a later move left the decision alone.
C2_Witness ==
  /\ ClaimedHorizontal
  /\ touchEvent = "touchmove"
  /\ contacts = 1
  /\ model = 0
  /\ ~(SampleDX > 2 * SampleDY /\ SampleDX > 15)

C4_ReplacedModelDisposedOnce ==
  \A k \in modelLoaded :
    (model # k) => \A r \in ResourcesOf(k) : disposeCount[r] = 1

\* C5: the render loop stops on destruction. While the widget is detached no
\* animate callback is waiting for the next frame.
C5_LoopStopsOnDetach == ~connected => rafPending = 0

\* C6: teardown is idempotent. However often disconnectedCallback runs, no
\* geometry, material or renderer is disposed more than once.
C6_TeardownDisposesOnce ==
  /\ \A r \in Resources : disposeCount[r] <= 1
  /\ \A s \in SceneIds : rendererDisposed[s] <= 1

\* C7: exactly one active model. The scene holds at most one loaded model; when
\* this.model is set it is the one in the scene, and when it is not the scene
\* holds none.
C7_OneActiveModel ==
  /\ Cardinality(InScene) <= 1
  /\ model # 0 => InScene = {model}
  /\ model = 0 => InScene = {}

\* C7 witness: three models were installed, the last of them not the one
\* requested last.
C7_Witness ==
  /\ Cardinality(modelLoaded) >= 3
  /\ model # 0
  /\ model # issued
  /\ InScene = {model}

\* C8: incremental rotation. Every move sample at x of a claimed gesture with a
\* model installed suppresses the default action, adds (x - reference X) * 0.01
\* to the rotation and makes x the reference X.
C8_PanIsIncremental ==
  [][(contacts = 1 /\ model # 0 /\ touchEvent' = "touchmove" /\ ClaimedHorizontal')
       => /\ defaultPrevented'
          /\ rotationY' = rotationY + (touchX' - touchStartX) * 10
          /\ touchStartX' = touchX']_vars

\* C9: a ceded gesture's moves are no-ops. A touch-move of a CededVertical
\* gesture does not suppress the default action and changes neither the rotation
\* nor the start coordinates nor the two flags.
C9_CededIsNoOp ==
  [][(CededVertical /\ touchEvent' = "touchmove")
       => /\ ~defaultPrevented'
          /\ UNCHANGED <<rotationY, touchStartX, touchStartY,
                         touchMoveStarted, isHorizontalPan>>]_vars

\* C9 witness: a ceded gesture over an installed model whose last sample would
\* have claimed it: the move was left to the browser.
C9_Witness ==
  /\ CededVertical
  /\ touchEvent = "touchmove"
  /\ contacts = 1
  /\ model # 0
  /\ ~defaultPrevented
  /\ SampleDX > 2 * SampleDY
  /\ SampleDX > 15

C11_MultiTouchIgnored ==
  [][(\/ touchEvent' = "touchstart" /\ contacts' > 1
      \/ touchEvent' = "touchmove" /\ contacts > 1
      \/ touchEvent' = "touchend" /\ contacts > 1 /\ contacts' >= 1)
       => UNCHANGED <<touchMoveStarted, isHorizontalPan, touchStartX, touchStartY,
                      rotationY>>]_vars

\* C12: stale completions are dropped silently. The completion, successful or
\* failed, of a load that is no longer the one issued last changes neither the
\* installed model nor the camera position nor the animation player, and
\* dispatches neither model-loaded nor model-error.
C12_StaleCompletionDropped ==
  [][\A k \in pending :
       (k \notin pending' /\ k < issued)
         => UNCHANGED <<model, cameraZ, animationMixer, modelLoaded, modelError>>]_vars

\* C13: a failed load is not fatal. Its completion dispatches one model-error
\* for that load and nothing else: the installed model, the contents of the
\* scene and the camera stay as they were and no load is issued in its place;
\* and the success of whichever load completes, also after failures, installs
\* that load's model in the scene.
C13_LoadFailureNonFatal ==
  [][/\ \A k \in pending :
          (k \notin pending' /\ k \notin modelLoaded')
            => /\ modelError' = modelError \cup {k}
               /\ k \notin modelError
               /\ pending' = pending \ {k}
               /\ UNCHANGED <<model, parent, cameraZ, scale, animationMixer, issued,
                              modelLoaded, rotationY>>
     /\ \A k \in pending :
          (k \in modelLoaded' /\ k \notin modelLoaded)
            => model' = k /\ parent'[k] = scene /\ modelError' = modelError]_vars

\* C13 witness: a load has failed while a model was installed, and a load issued
\* after the failed one has succeeded and is the installed model.
C13_Witness ==
  /\ modelError # {}
  /\ \E e \in modelError : e < model /\ (\E m \in modelLoaded : m < e)
  /\ parent[model] = scene

\* C14: detach unregisters the listeners. While the widget is attached exactly
\* one resize listener is registered on window, and while it is detached none,
\* nor any canvas that still carries the touch listeners.
C14_DetachUnregisters ==
  /\ resizeListeners = (IF connected THEN 1 ELSE 0)
  /\ ~connected => touchListeners = 0

\* C15: resetCamera() without a model never throws and leaves the camera in the
\* one fixed default state: whatever happens to a widget that has a camera and
\* no installed model (initialization, a failed load, resetCamera), its camera
\* stays at one and the same position.
C15_OneDefaultCamera ==
  [][(model = 0 /\ model' = 0 /\ scene # 0 /\ scene' # 0) => cameraZ' = cameraZ]_vars

\* C16: degenerate geometry falls back to a fixed minimum distance. While a model
\* with a zero-size bounding box is installed, the camera distance, set by the
\* framing at install and by resetCamera(), is a positive number: never 0, never
\* NaN.
C16_DegenerateFallsBack ==
  (scene # 0 /\ model # 0 /\ modelDim = 0) => (cameraZ # NaN /\ cameraZ > 0)

\* An attribute value that is present and is not a number.
Unparseable(str) == str \notin {"", "0.005", "0.01", "1.0", "2"}

\* C17: unparseable numeric configuration falls back to the default. When the
\* rotate-speed attribute is not a number the rotate speed of the initialized
\* widget is 0.005, and when the scale attribute is not a number the scale of
\* the installed model is 1.0.
C17_UnparseableFallsBack ==
  /\ (isInitialized /\ Unparseable(attrRotateSpeed)) => rotateSpeed = 5
  /\ (model # 0 /\ Unparseable(attrScale)) => scale = 1000

\* C18: the configured scale always applies to the installed model. Whenever a
\* model is installed its scale is the number the scale attribute holds now,
\* 1.0 when the attribute is absent, whatever the order of attribute changes,
\* load requests and completions was.
C18_ScaleFollowsAttribute ==
  model # 0 =>
    /\ attrScale = "" => scale = 1000
    /\ attrScale = "2" => scale = 2000

\* C18 witness: the installed model is the result of a second load and has scale
\* 2, the attribute having been set to "2" only after the attach read the
\* scale 1.0.
C18_Witness ==
  /\ model >= 2
  /\ attrScale = "2"
  /\ scale = 2000
  /\ modelScale = 1000
  /\ modelDim = 2

\* C19: the animation player follows the installed model. Whenever
\* animationMixer is set, it is the player created for the installed model, so
\* that a tick never advances the clips of a model that was replaced.
C19_MixerOfInstalledModel == animationMixer # 0 => animationMixer = model

\* C20: at most one render loop per widget. Across attach, detach and re-attach
\* at most one animate callback is waiting for the next frame.
C20_OneRenderLoop == rafPending <= 1

\* C21: no installation after teardown. The completion, while the widget is
\* detached, of a load issued before the disconnectedCallback does not set
\* this.model, does not add the loaded model to the disposed scene, and leaves
\* none of its geometries and materials undisposed and reachable from the
\* widget.
C21_NoInstallAfterTeardown ==
  [][\A k \in pending :
       (~connected /\ k \notin pending')
         => /\ model' = model
            /\ parent'[k] = 0
            /\ \A r \in ResourcesOf(k) :
                 (model' = k \/ parent'[k] # 0) => disposeCount'[r] > 0]_vars
====
